---- MODULE Spec2Model ----
(***************************************************************************)
(* Model of app.py: the note-sequence and measure-layout generator         *)
(* (scales, arpeggios and custom rhythm lines) built on music21 streams.   *)
(*                                                                         *)
(* A pitch is [step, alter, octave]: step 1..7 = C..B, alter in semitones  *)
(* (-1 flat, +1 sharp).  A note is [pitch, duration], the duration being a *)
(* quarterLength kept as a reduced fraction [num, den].  A stream is the   *)
(* sequence of its appended elements.  The accidental display flags set by *)
(* fix_enharmonic_spelling (lines 63-65) do not change name or octave and  *)
(* are left out.                                                           *)
(***************************************************************************)
EXTENDS Integers, Sequences, FiniteSets, TLC

VARIABLES
    pc,                     \* position of the request handler generate()
    keys,                   \* request: list of key-signature names
    num_octaves,            \* request: octave count
    instrument_name,        \* request: instrument name
    custom_rhythm,          \* request: measures of fractions of a whole note
    key_idx,                \* number of keys already consumed by the loop at line 315
    scales_arpeggios_score, \* Score of generate_scales_arpeggios_pdf (sequence of Parts)
    custom_rhythm_score,    \* Score of generate_custom_rhythm_pdf (sequence of Parts)
    scale_pitches,          \* local of the latest sequencer call: scale_object.getPitches(...)
    all_pitches,            \* local of the latest create_scale_measures call
    scale_measures,         \* result of the latest create_scale_measures call
    arpeggio_up,            \* local of the latest create_arpeggio_measures call
    all_arpeggio_pitches,   \* local of the latest create_arpeggio_measures call
    arpeggio_measures,      \* result of the latest create_arpeggio_measures call
    n,                      \* the note handed to fix_enharmonic_spelling
    n_in,                   \* the pitch that note was created with
    n_calls                 \* how many times fix_enharmonic_spelling ran on n

vars == <<pc, keys, num_octaves, instrument_name, custom_rhythm, key_idx,
          scales_arpeggios_score, custom_rhythm_score, scale_pitches,
          all_pitches, scale_measures, arpeggio_up, all_arpeggio_pitches,
          arpeggio_measures, n, n_in, n_calls>>

(***************************************************************************)
(* Bounds of the model                                                     *)
(***************************************************************************)
MaxKeys == 2        \* longest key list of a request
MaxOctaves == 2     \* largest num_octaves of a request
MaxK == 16          \* longest scale-pitch list handed to the sequencers
MaxSeqOctaves == 3  \* largest num_octaves handed to the sequencers
MaxSpellOctave == 6 \* highest octave of a pitch handed to the speller

(***************************************************************************)
(* Generic helpers                                                         *)
(***************************************************************************)
Reverse(s) == [i \in 1..Len(s) |-> s[Len(s) + 1 - i]]

\* Python's s[:-1]
ButLast(s) == IF Len(s) = 0 THEN <<>> ELSE SubSeq(s, 1, Len(s) - 1)

RECURSIVE GCD(_, _)
GCD(a, b) == IF b = 0 THEN a ELSE GCD(b, a % b)

Frac(a, b) == [num |-> a \div GCD(a, b), den |-> b \div GCD(a, b)]

(***************************************************************************)
(* music21 pitches: names and heights                                      *)
(***************************************************************************)
StepNames == <<"C", "D", "E", "F", "G", "A", "B">>

\* semitones of the natural steps above C
NaturalPc == <<0, 2, 4, 5, 7, 9, 11>>

\* music21 writes a sharp as "#" and a flat as "-"
AccidentalModifier(alter) ==
    CASE alter = 0 -> ""
      [] alter = 1 -> "#"
      [] alter = 2 -> "##"
      [] alter = -1 -> "-"
      [] alter = -2 -> "--"

\* n.pitch.name
PitchName(p) == StepNames[p.step] \o AccidentalModifier(p.alter)

\* height in semitones (MIDI number)
Ps(p) == 12 * (p.octave + 1) + NaturalPc[p.step] + p.alter

Pitch(s, a, o) == [step |-> s, alter |-> a, octave |-> o]

\* the step and alteration a name parses to; the name setter also reads "b" as a flat
ParseName(name) ==
    CHOOSE sa \in (1..7) \X (-2..2) :
        \/ name = StepNames[sa[1]] \o AccidentalModifier(sa[2])
        \/ sa[2] = -1 /\ name = StepNames[sa[1]] \o "b"
        \/ sa[2] = -2 /\ name = StepNames[sa[1]] \o "bb"

(***************************************************************************)
(* ENHARM_MAP and fix_enharmonic_spelling                                  *)
(***************************************************************************)
ENHARM_MAP ==
    [name \in {"E#", "B#", "Cb", "Fb"} |->
        CASE name = "E#" -> <<"F", 0>>
          [] name = "B#" -> <<"C", 1>>
          [] name = "Cb" -> <<"B", -1>>
          [] name = "Fb" -> <<"E", 0>>]

\* the pitch of the note after fix_enharmonic_spelling(n)
fix_enharmonic_spelling(p) ==
    LET original_name == PitchName(p) IN
    IF original_name \in DOMAIN ENHARM_MAP
    THEN LET new_name == ENHARM_MAP[original_name][1]
             octave_adjust == ENHARM_MAP[original_name][2]
             sa == ParseName(new_name)
         IN  Pitch(sa[1], sa[2], p.octave + octave_adjust)
    ELSE p

(***************************************************************************)
(* EASIEST_NOTE_MAP: instrument -> easiest note ("G3" is name G, octave 3) *)
(***************************************************************************)
\* variant: the table without the violin
EASIEST_NOTE_MAP_NoViolin ==
    [i \in {"Piano", "Alto Saxophone", "Flute", "Clarinet"} |->
        CASE i = "Piano" -> [name |-> "C", octave |-> 4]
          [] i = "Alto Saxophone" -> [name |-> "D", octave |-> 4]
          [] i = "Flute" -> [name |-> "G", octave |-> 4]
          [] i = "Clarinet" -> [name |-> "E", octave |-> 4]]

EASIEST_NOTE_MAP ==
    [i \in {"Piano", "Alto Saxophone", "Violin", "Flute", "Clarinet"} |->
        CASE i = "Piano" -> [name |-> "C", octave |-> 4]
          [] i = "Alto Saxophone" -> [name |-> "D", octave |-> 4]
          [] i = "Violin" -> [name |-> "G", octave |-> 3]
          [] i = "Flute" -> [name |-> "G", octave |-> 4]
          [] i = "Clarinet" -> [name |-> "E", octave |-> 4]]

\* EASIEST_NOTE_MAP.get(instrument_name, "C4")
EasiestNote(instr) ==
    IF instr \in DOMAIN EASIEST_NOTE_MAP
    THEN EASIEST_NOTE_MAP[instr]
    ELSE [name |-> "C", octave |-> 4]

\* note.Note("G3").pitch
NotePitch(nm) == Pitch(ParseName(nm.name)[1], ParseName(nm.name)[2], nm.octave)

(***************************************************************************)
(* determine_clef_and_octave                                               *)
(***************************************************************************)
instrument_map ==
    [i \in {"Violin", "Viola", "Cello", "Double Bass", "Guitar", "Harp",
            "Alto Saxophone", "Bass Clarinet", "Bassoon", "Clarinet",
            "English Horn", "Flute", "Oboe", "Piccolo", "Tenor Saxophone",
            "Trumpet", "Euphonium", "French Horn", "Trombone", "Tuba",
            "Marimba", "Timpani", "Vibraphone", "Xylophone",
            "Electric Piano", "Organ", "Voice"} |->
        CASE i \in {"Cello", "Bassoon", "Euphonium", "Trombone"} -> <<"BassClef", 2>>
          [] i \in {"Double Bass", "Tuba"} -> <<"BassClef", 1>>
          [] i = "Timpani" -> <<"BassClef", 3>>
          [] i = "Viola" -> <<"AltoClef", 3>>
          [] i = "Bass Clarinet" -> <<"TrebleClef", 2>>
          [] i = "Piccolo" -> <<"TrebleClef", 5>>
          [] i \in {"Violin", "Guitar", "Harp", "Clarinet", "Tenor Saxophone",
                    "French Horn", "Marimba", "Vibraphone"} -> <<"TrebleClef", 3>>
          [] OTHER -> <<"TrebleClef", 4>>]

unpitched_percussion == {"Bass Drum", "Cymbals", "Snare Drum", "Triangle", "Tambourine"}

\* a dict of both hands for the piano, a (clef, octave) pair otherwise
determine_clef_and_octave(instr) ==
    IF instr = "Piano"
    THEN [isDict |-> TRUE, right |-> <<"TrebleClef", 4>>, left |-> <<"BassClef", 2>>]
    ELSE IF instr \in unpitched_percussion
    THEN [isDict |-> FALSE, pair |-> <<"PercussionClef", 4>>]
    ELSE IF instr \in DOMAIN instrument_map
    THEN [isDict |-> FALSE, pair |-> instrument_map[instr]]
    ELSE [isDict |-> FALSE, pair |-> <<"TrebleClef", 4>>]

(***************************************************************************)
(* scale.MajorScale(key_signature) and its getPitches                      *)
(***************************************************************************)
\* the key names of the model's requests
KeyNames == {"C", "G", "F#", "Eb", "Cb"}

\* scale_object.tonic: the pitch (without octave) the key name parses to
Tonic(key_signature) == ParseName(key_signature)

\* semitones of the major-scale degrees above the tonic
MajorIntervals == <<0, 2, 4, 5, 7, 9, 11>>

\* the d-th pitch (d = 0, 1, ...) of the major scale ascending from tonic@octave_start:
\* one letter per degree, the accidental fixed by the semitone distance
ScaleDegree(tonic, octave_start, d) ==
    LET s0 == tonic[1] - 1 + d
        st == (s0 % 7) + 1
        oc == octave_start + (s0 \div 7)
        target == Ps(Pitch(tonic[1], tonic[2], octave_start))
                    + 12 * (d \div 7) + MajorIntervals[(d % 7) + 1]
    IN  Pitch(st, target - Ps(Pitch(st, 0, oc)), oc)

\* getPitches(tonic@octave_start, tonic@(octave_start + num)), both ends included
getPitches(tonic, octave_start, num) ==
    [d \in 1..(7 * num + 1) |-> ScaleDegree(tonic, octave_start, d - 1)]

(***************************************************************************)
(* Measures and notes                                                      *)
(***************************************************************************)
\* stream.Measure(): its notes and what was inserted at offset 0
NewMeasure == [kind |-> "Measure", notes |-> <<>>, txt |-> <<>>, clefs |-> <<>>, keysigs |-> <<>>]

\* layout.SystemLayout(isNew=True)
SystemBreak == [kind |-> "SystemLayout", notes |-> <<>>, txt |-> <<>>, clefs |-> <<>>, keysigs |-> <<>>]

Whole == Frac(4, 1)
Quarter == Frac(1, 1)
Eighth == Frac(1, 2)

\* n = note.Note(p); n.duration = ...; fix_enharmonic_spelling(n)
MakeNote(p, dur) == [pitch |-> fix_enharmonic_spelling(p), duration |-> dur]

\* if i == 0: m.insert(0, TextExpression(title_text))
WithTitle(m, i, title_text) ==
    IF i = 0 THEN [m EXCEPT !.txt = Append(@, title_text)] ELSE m

\* if current_measure.notes: measures_stream.append(current_measure)
Flush(measures_stream, current_measure) ==
    IF current_measure.notes # <<>>
    THEN Append(measures_stream, current_measure)
    ELSE measures_stream

(***************************************************************************)
(* create_scale_measures                                                   *)
(***************************************************************************)
ScaleNotesPerMeasure == 7

\* variant: the descent starts again at the apex, reversed(pitches_up)
ScalePitchesDownFromApex(pitches_up) == Reverse(pitches_up)

\* pitches_down = list(reversed(pitches_up[:-1]))
ScalePitchesDown(pitches_up) == Reverse(ButLast(pitches_up))

\* all_pitches = pitches_up + pitches_down
ScaleAllPitches(pitches_up) == pitches_up \o ScalePitchesDown(pitches_up)

\* variant: the last note is a whole note at the end of the current measure
PackLastInCurrent(st, i, p, title_text) ==
    [st EXCEPT !.stream =
        Append(st.stream,
               [WithTitle(st.cur, i, title_text) EXCEPT
                    !.notes = Append(@, MakeNote(p, Whole))])]

\* the last note of the sequence: a whole note in a measure of its own
PackLast(st, i, p, title_text) ==
    [st EXCEPT !.stream =
        Append(Flush(st.stream, st.cur),
               [WithTitle(NewMeasure, i, title_text) EXCEPT
                    !.notes = <<MakeNote(p, Whole)>>])]

\* variant: a new measure is opened without the full one being appended
ScaleOpenNoFlush(st, i, p, title_text) ==
    [stream |-> st.stream,
     cur |-> [WithTitle(NewMeasure, i, title_text) EXCEPT
                  !.notes = <<MakeNote(p, Quarter)>>],
     counter |-> st.counter + 1]

\* pos_in_measure == 0: the full measure is appended and a new one starts on a quarter
ScaleOpen(st, i, p, title_text) ==
    [stream |-> Flush(st.stream, st.cur),
     cur |-> [WithTitle(NewMeasure, i, title_text) EXCEPT
                  !.notes = <<MakeNote(p, Quarter)>>],
     counter |-> st.counter + 1]

\* pos_in_measure > 0: an eighth joins the current measure
ScaleContinue(st, p) ==
    [st EXCEPT !.cur.notes = Append(@, MakeNote(p, Eighth)),
               !.counter = @ + 1]

\* for i, p in enumerate(all_pitches), i counted from 0
RECURSIVE ScaleLoop(_, _, _, _)
ScaleLoop(pitches, title_text, i, st) ==
    IF i >= Len(pitches) THEN st.stream
    ELSE IF i = Len(pitches) - 1
    THEN PackLast(st, i, pitches[i + 1], title_text).stream
    ELSE IF st.counter % ScaleNotesPerMeasure = 0
    THEN ScaleLoop(pitches, title_text, i + 1, ScaleOpen(st, i, pitches[i + 1], title_text))
    ELSE ScaleLoop(pitches, title_text, i + 1, ScaleContinue(st, pitches[i + 1]))

PackInit == [stream |-> <<>>, cur |-> NewMeasure, counter |-> 0]

\* the body of create_scale_measures once getPitches has answered
ScaleMeasuresOf(title_text, pitches_up) ==
    ScaleLoop(ScaleAllPitches(pitches_up), title_text, 0, PackInit)

create_scale_measures(title_text, tonic, octave_start, num) ==
    ScaleMeasuresOf(title_text, getPitches(tonic, octave_start, num))

(***************************************************************************)
(* create_arpeggio_measures                                                *)
(***************************************************************************)
ArpeggioNotesPerMeasure == 8

\* scale_pitches[idx] with idx counted from 0; FALSE stands for IndexError
InRange(pitches, idx) == idx < Len(pitches)

\* variant: every octave adds its octave tone, not only the last one
ArpeggioGroupAlwaysOctave(pitches, o, num) ==
    LET base_idx == 7 * o IN
    IF ~ (InRange(pitches, base_idx) /\ InRange(pitches, base_idx + 2)
            /\ InRange(pitches, base_idx + 4) /\ InRange(pitches, base_idx + 7))
    THEN <<>>
    ELSE <<pitches[base_idx + 1], pitches[base_idx + 3], pitches[base_idx + 5],
           pitches[base_idx + 8]>>

\* variant: root, third and fifth are added before the octave tone is read,
\* so a missing octave tone leaves a partial group behind
ArpeggioGroupPartial(pitches, o, num) ==
    LET base_idx == 7 * o IN
    IF ~ (InRange(pitches, base_idx) /\ InRange(pitches, base_idx + 2)
            /\ InRange(pitches, base_idx + 4))
    THEN <<>>
    ELSE IF o < num - 1 \/ ~ InRange(pitches, base_idx + 7)
    THEN <<pitches[base_idx + 1], pitches[base_idx + 3], pitches[base_idx + 5]>>
    ELSE <<pitches[base_idx + 1], pitches[base_idx + 3], pitches[base_idx + 5],
           pitches[base_idx + 8]>>

\* the tones one pass of the loop over o adds to arpeggio_up
ArpeggioGroup(pitches, o, num) ==
    LET base_idx == 7 * o IN
    IF ~ (InRange(pitches, base_idx) /\ InRange(pitches, base_idx + 2)
            /\ InRange(pitches, base_idx + 4))
    THEN <<>>
    ELSE IF o < num - 1
    THEN <<pitches[base_idx + 1], pitches[base_idx + 3], pitches[base_idx + 5]>>
    ELSE IF ~ InRange(pitches, base_idx + 7)
    THEN <<>>
    ELSE <<pitches[base_idx + 1], pitches[base_idx + 3], pitches[base_idx + 5],
           pitches[base_idx + 8]>>

\* for o in range(num_octaves), from octave o on
RECURSIVE ArpeggioUpFrom(_, _, _)
ArpeggioUpFrom(pitches, o, num) ==
    IF o >= num THEN <<>>
    ELSE ArpeggioGroup(pitches, o, num) \o ArpeggioUpFrom(pitches, o + 1, num)

ArpeggioUp(pitches, num) == ArpeggioUpFrom(pitches, 0, num)

\* arpeggio_down = list(reversed(arpeggio_up[:-1])) if len(arpeggio_up) > 1 else []
ArpeggioDown(up) == IF Len(up) > 1 THEN Reverse(ButLast(up)) ELSE <<>>

\* all_arpeggio_pitches = arpeggio_up + arpeggio_down
ArpeggioAllPitches(up) == up \o ArpeggioDown(up)

\* pos_in_measure == 0: the full measure is appended and a new one starts
ArpeggioOpen(st, i, title_text) ==
    [st EXCEPT !.stream = Flush(st.stream, st.cur),
               !.cur = WithTitle(NewMeasure, i, title_text)]

\* an eighth joins the current measure
ArpeggioContinue(st, p) ==
    [st EXCEPT !.cur.notes = Append(@, MakeNote(p, Eighth)),
               !.counter = @ + 1]

\* for i, p in enumerate(all_arpeggio_pitches), i counted from 0
RECURSIVE ArpeggioLoop(_, _, _, _)
ArpeggioLoop(pitches, title_text, i, st) ==
    IF i >= Len(pitches) THEN st.stream
    ELSE IF i = Len(pitches) - 1
    THEN PackLast(st, i, pitches[i + 1], title_text).stream
    ELSE IF st.counter % ArpeggioNotesPerMeasure = 0
    THEN ArpeggioLoop(pitches, title_text, i + 1,
                      ArpeggioContinue(ArpeggioOpen(st, i, title_text), pitches[i + 1]))
    ELSE ArpeggioLoop(pitches, title_text, i + 1, ArpeggioContinue(st, pitches[i + 1]))

\* the body of create_arpeggio_measures once getPitches has answered
ArpeggioMeasuresOf(title_text, pitches, num) ==
    ArpeggioLoop(ArpeggioAllPitches(ArpeggioUp(pitches, num)), title_text, 0, PackInit)

create_arpeggio_measures(title_text, tonic, octave_start, num) ==
    ArpeggioMeasuresOf(title_text, getPitches(tonic, octave_start, num), num)

(***************************************************************************)
(* create_part_for_single_key_scales_arpeggios                             *)
(***************************************************************************)
\* stream.Part() after the two inserts at offset 0; elements holds what is appended
NewPart(instr) ==
    [instrument |-> instr, head |-> <<SystemBreak>>, elements |-> <<>>]

\* selected_clef, octave_start: the right hand of a dict, the pair otherwise
SelectClefOctave(instr) ==
    LET clef_octave == determine_clef_and_octave(instr) IN
    IF clef_octave.isDict THEN clef_octave.right ELSE clef_octave.pair

\* first_m.insert(0, clef); first_m.insert(0, major_key_obj); part.append(m) for each m
AppendScaleMeasures(part, measures, selected_clef, key_signature) ==
    IF measures = <<>> THEN part
    ELSE [part EXCEPT !.elements = @ \o
            [measures EXCEPT ![1].clefs = Append(@, selected_clef),
                             ![1].keysigs = Append(@, key_signature)]]

\* variant: a system break is appended after the arpeggio block too
AppendArpeggioMeasuresThenBreak(part, measures, key_signature) ==
    LET appended == IF measures = <<>> THEN part
                    ELSE [part EXCEPT !.elements = @ \o
                            [measures EXCEPT ![1].keysigs = Append(@, key_signature)]]
    IN  [appended EXCEPT !.elements = Append(@, SystemBreak)]

\* variant: the first arpeggio measure is given the clef as well
AppendArpeggioMeasuresWithClef(part, measures, key_signature) ==
    IF measures = <<>> THEN part
    ELSE [part EXCEPT !.elements = @ \o
            [measures EXCEPT ![1].clefs = Append(@, SelectClefOctave(part.instrument)[1]),
                             ![1].keysigs = Append(@, key_signature)]]

\* first_arp.insert(0, major_key_obj); part.append(m) for each m
AppendArpeggioMeasures(part, measures, key_signature) ==
    IF measures = <<>> THEN part
    ELSE [part EXCEPT !.elements = @ \o
            [measures EXCEPT ![1].keysigs = Append(@, key_signature)]]

\* part.append(layout.SystemLayout(isNew=True))
AppendSystemBreak(part) == [part EXCEPT !.elements = Append(@, SystemBreak)]

ScaleTitle(key_signature) == key_signature \o " Major Scale"

ArpeggioTitle(key_signature) == key_signature \o " Major Arpeggio"

create_part_for_single_key_scales_arpeggios(key_signature, num, instr) ==
    LET selected_clef == SelectClefOctave(instr)[1]
        octave_start == SelectClefOctave(instr)[2]
        sm == create_scale_measures(ScaleTitle(key_signature),
                                    Tonic(key_signature), octave_start, num)
        am == create_arpeggio_measures(ArpeggioTitle(key_signature),
                                       Tonic(key_signature), octave_start, num)
        p1 == AppendScaleMeasures(NewPart(instr), sm, selected_clef, key_signature)
        p2 == AppendSystemBreak(p1)
    IN  AppendArpeggioMeasures(p2, am, key_signature)

(***************************************************************************)
(* create_custom_rhythm_part                                               *)
(***************************************************************************)
\* n = note.Note(easiest_note); fix_enharmonic_spelling(n); n.duration = Duration(val * 4)
RhythmNote(easiest_note, val) ==
    [pitch |-> fix_enharmonic_spelling(NotePitch(easiest_note)),
     duration |-> Frac(val.num * 4, val.den)]

\* one measure of the pattern
RhythmMeasure(title_text, measure_index, measure_durations, easiest_note) ==
    [WithTitle(NewMeasure, measure_index, title_text) EXCEPT
        !.notes = [j \in 1..Len(measure_durations) |->
                      RhythmNote(easiest_note, measure_durations[j])]]

\* variant: the titled first measure is made before the loop, also for an empty pattern
create_custom_rhythm_part_titled(title_text, rhythm, instr) ==
    [NewPart(instr) EXCEPT
        !.elements = IF rhythm = <<>>
                     THEN <<WithTitle(NewMeasure, 0, title_text)>>
                     ELSE [m \in 1..Len(rhythm) |->
                            RhythmMeasure(title_text, m - 1, rhythm[m], EasiestNote(instr))]]

create_custom_rhythm_part(title_text, rhythm, instr) ==
    [NewPart(instr) EXCEPT
        !.elements = [m \in 1..Len(rhythm) |->
                         RhythmMeasure(title_text, m - 1, rhythm[m], EasiestNote(instr))]]

(***************************************************************************)
(* The request handler generate() and its two generators                   *)
(***************************************************************************)
\* instrument names of the model's requests
Instruments == {"Piano", "Violin", "Alto Saxophone", "Tuba", "Snare Drum"}

One == [num |-> 1, den |-> 1]
Half == [num |-> 1, den |-> 2]

\* rhythm patterns of the model's requests
Rhythms == {<<>>, <<<<One>>>>, <<<<One>>, <<Half, Half>>>>}

CustomLineTitle == "Test Custom Rhythm"

\* key lists of at most MaxKeys names
KeyLists == UNION {[1..len -> KeyNames] : len \in 0..MaxKeys}

NoNote == [pitch |-> Pitch(1, 0, 0)]

Init ==
    /\ pc = "scales"
    /\ keys \in KeyLists
    /\ num_octaves \in 0..MaxOctaves
    /\ instrument_name \in Instruments
    /\ custom_rhythm \in Rhythms
    /\ key_idx = 0
    /\ scales_arpeggios_score = <<>>
    /\ custom_rhythm_score = <<>>
    /\ scale_pitches = <<>>
    /\ all_pitches = <<>>
    /\ scale_measures = <<>>
    /\ arpeggio_up = <<>>
    /\ all_arpeggio_pitches = <<>>
    /\ arpeggio_measures = <<>>
    /\ n = NoNote
    /\ n_in = NoNote.pitch
    /\ n_calls = 0

\* one pass of the loop of generate_scales_arpeggios_pdf: build and append the Part of the next key
ScalesPart ==
    /\ pc = "scales"
    /\ key_idx < Len(keys)
    /\ LET key_sig == keys[key_idx + 1]
           octave_start == SelectClefOctave(instrument_name)[2]
           pitches == getPitches(Tonic(key_sig), octave_start, num_octaves)
       IN  /\ scales_arpeggios_score' =
                Append(scales_arpeggios_score,
                       create_part_for_single_key_scales_arpeggios(
                           key_sig, num_octaves, instrument_name))
           /\ scale_pitches' = pitches
           /\ all_pitches' = ScaleAllPitches(pitches)
           /\ scale_measures' =
                create_scale_measures(ScaleTitle(key_sig), Tonic(key_sig),
                                      octave_start, num_octaves)
           /\ arpeggio_up' = ArpeggioUp(pitches, num_octaves)
           /\ all_arpeggio_pitches' = ArpeggioAllPitches(ArpeggioUp(pitches, num_octaves))
           /\ arpeggio_measures' =
                create_arpeggio_measures(ArpeggioTitle(key_sig), Tonic(key_sig),
                                         octave_start, num_octaves)
    /\ key_idx' = key_idx + 1
    /\ UNCHANGED <<pc, keys, num_octaves, instrument_name, custom_rhythm,
                   custom_rhythm_score, n, n_in, n_calls>>

\* the loop of generate_scales_arpeggios_pdf is over: the score is written out
ScalesWrite ==
    /\ pc = "scales"
    /\ key_idx = Len(keys)
    /\ pc' = "rhythm"
    /\ UNCHANGED <<keys, num_octaves, instrument_name, custom_rhythm, key_idx,
                   scales_arpeggios_score, custom_rhythm_score, scale_pitches,
                   all_pitches, scale_measures, arpeggio_up, all_arpeggio_pitches,
                   arpeggio_measures, n, n_in, n_calls>>

\* generate_custom_rhythm_pdf
CustomRhythm ==
    /\ pc = "rhythm"
    /\ custom_rhythm_score' =
            Append(custom_rhythm_score,
                   create_custom_rhythm_part(CustomLineTitle, custom_rhythm, instrument_name))
    /\ pc' = "merge"
    /\ UNCHANGED <<keys, num_octaves, instrument_name, custom_rhythm, key_idx,
                   scales_arpeggios_score, scale_pitches,
                   all_pitches, scale_measures, arpeggio_up, all_arpeggio_pitches,
                   arpeggio_measures, n, n_in, n_calls>>

\* merge_pdfs and send_file: the request is answered
Merge ==
    /\ pc = "merge"
    /\ pc' = "done"
    /\ UNCHANGED <<keys, num_octaves, instrument_name, custom_rhythm, key_idx,
                   scales_arpeggios_score, custom_rhythm_score, scale_pitches,
                   all_pitches, scale_measures, arpeggio_up, all_arpeggio_pitches,
                   arpeggio_measures, n, n_in, n_calls>>

Next == ScalesPart \/ ScalesWrite \/ CustomRhythm \/ Merge

Spec == Init /\ [][Next]_vars

(***************************************************************************)
(* The sequencers and packers on a scale-pitch list of any length          *)
(***************************************************************************)
InitSeq ==
    /\ pc = "seq_scale"
    /\ keys \in [1..1 -> KeyNames]
    /\ num_octaves \in 0..MaxSeqOctaves
    /\ instrument_name \in {"Piano", "Tuba"}
    /\ \E K \in 0..MaxK :
          scale_pitches = [d \in 1..K |->
                ScaleDegree(Tonic(keys[1]), SelectClefOctave(instrument_name)[2], d - 1)]
    /\ custom_rhythm = <<>>
    /\ key_idx = 0
    /\ scales_arpeggios_score = <<>>
    /\ custom_rhythm_score = <<>>
    /\ all_pitches = <<>>
    /\ scale_measures = <<>>
    /\ arpeggio_up = <<>>
    /\ all_arpeggio_pitches = <<>>
    /\ arpeggio_measures = <<>>
    /\ n = NoNote
    /\ n_in = NoNote.pitch
    /\ n_calls = 0

\* the body of create_scale_measures on scale_pitches
SeqScale ==
    /\ pc = "seq_scale"
    /\ all_pitches' = ScaleAllPitches(scale_pitches)
    /\ scale_measures' = ScaleMeasuresOf(ScaleTitle(keys[1]), scale_pitches)
    /\ pc' = "seq_arpeggio"
    /\ UNCHANGED <<keys, num_octaves, instrument_name, custom_rhythm, key_idx,
                   scales_arpeggios_score, custom_rhythm_score, scale_pitches,
                   arpeggio_up, all_arpeggio_pitches, arpeggio_measures,
                   n, n_in, n_calls>>

\* the body of create_arpeggio_measures on scale_pitches
SeqArpeggio ==
    /\ pc = "seq_arpeggio"
    /\ arpeggio_up' = ArpeggioUp(scale_pitches, num_octaves)
    /\ all_arpeggio_pitches' = ArpeggioAllPitches(ArpeggioUp(scale_pitches, num_octaves))
    /\ arpeggio_measures' =
            ArpeggioMeasuresOf(ArpeggioTitle(keys[1]), scale_pitches, num_octaves)
    /\ pc' = "seq_done"
    /\ UNCHANGED <<keys, num_octaves, instrument_name, custom_rhythm, key_idx,
                   scales_arpeggios_score, custom_rhythm_score, scale_pitches,
                   all_pitches, scale_measures, n, n_in, n_calls>>

NextSeq == SeqScale \/ SeqArpeggio

SpecSeq == InitSeq /\ [][NextSeq]_vars

(***************************************************************************)
(* fix_enharmonic_spelling on any pitch                                    *)
(***************************************************************************)
InitSpell ==
    /\ pc = "spell"
    /\ n_in \in {Pitch(s, a, o) : s \in 1..7, a \in -1..1, o \in 1..MaxSpellOctave}
    /\ n = [pitch |-> n_in]
    /\ n_calls = 0
    /\ keys = <<>>
    /\ num_octaves = 0
    /\ instrument_name = "Piano"
    /\ custom_rhythm = <<>>
    /\ key_idx = 0
    /\ scales_arpeggios_score = <<>>
    /\ custom_rhythm_score = <<>>
    /\ scale_pitches = <<>>
    /\ all_pitches = <<>>
    /\ scale_measures = <<>>
    /\ arpeggio_up = <<>>
    /\ all_arpeggio_pitches = <<>>
    /\ arpeggio_measures = <<>>

\* fix_enharmonic_spelling(n), at most twice on the same note
Respell ==
    /\ pc = "spell"
    /\ n_calls < 2
    /\ n' = [pitch |-> fix_enharmonic_spelling(n.pitch)]
    /\ n_calls' = n_calls + 1
    /\ UNCHANGED <<pc, n_in, keys, num_octaves, instrument_name, custom_rhythm, key_idx,
                   scales_arpeggios_score, custom_rhythm_score, scale_pitches,
                   all_pitches, scale_measures, arpeggio_up, all_arpeggio_pitches,
                   arpeggio_measures>>

NextSpell == Respell

SpecSpell == InitSpell /\ [][NextSpell]_vars

(***************************************************************************)
(* Helpers of the properties                                               *)
(***************************************************************************)
\* the notes of a sequence of measures, in order
RECURSIVE FlattenNotes(_)
FlattenNotes(ms) ==
    IF ms = <<>> THEN <<>> ELSE ms[1].notes \o FlattenNotes(Tail(ms))

\* positions of the system breaks among the appended elements of a Part
BreaksOf(part) ==
    {i \in 1..Len(part.elements) : part.elements[i].kind = "SystemLayout"}

\* the request is past generate_scales_arpeggios_pdf
ScalesBuilt == pc \in {"rhythm", "merge", "done"}

\* the request is past generate_custom_rhythm_pdf
RhythmBuilt == pc \in {"merge", "done"}

\* a sequencer call for a key has been made by the request
PartBuilt == pc \in {"scales", "rhythm", "merge", "done"} /\ key_idx >= 1

NameAndOctave(p) == <<PitchName(p), p.octave>>

\* the number of duration values of a rhythm pattern
RECURSIVE CountValues(_)
CountValues(rhythm) ==
    IF rhythm = <<>> THEN 0 ELSE Len(rhythm[1]) + CountValues(Tail(rhythm))

(***************************************************************************)
(* C1                                                                      *)
(***************************************************************************)
\* C1 as stated: in every Part (of one octave or more) the appended elements
\* are the scale measures, a system break, the arpeggio measures and a trailing
\* system break, so the last element of the Part is a system break that
\* follows the last arpeggio measure.
C1_TrailingBreak ==
    num_octaves >= 1 =>
        \A k \in 1..Len(scales_arpeggios_score) :
            LET part == scales_arpeggios_score[k]
                len == Len(part.elements)
            IN  /\ Cardinality(BreaksOf(part)) = 2
                /\ part.elements[len].kind = "SystemLayout"
                /\ part.elements[len - 1].kind = "Measure"

\* C1 amended: in every Part the appended elements are the scale measures
\* (the first one titled "<key> Major Scale"), then exactly one system break,
\* then the arpeggio measures (the first one titled "<key> Major Arpeggio");
\* no system break follows the arpeggio measures, which end the Part.
C1_OneBreakBetween ==
    \A k \in 1..Len(scales_arpeggios_score) :
        LET part == scales_arpeggios_score[k]
            len == Len(part.elements)
        IN  /\ Cardinality(BreaksOf(part)) = 1
            /\ \A b \in BreaksOf(part) :
                /\ b > 1
                /\ part.elements[1].txt = <<ScaleTitle(keys[k])>>
                /\ b < len => part.elements[b + 1].txt = <<ArpeggioTitle(keys[k])>>
                /\ num_octaves >= 1 =>
                     /\ b = 2 * num_octaves + 2
                     /\ b < len
                     /\ part.elements[len].kind = "Measure"
                /\ k = key_idx =>
                     /\ FlattenNotes(SubSeq(part.elements, 1, b - 1))
                            = FlattenNotes(scale_measures)
                     /\ FlattenNotes(SubSeq(part.elements, b + 1, len))
                            = FlattenNotes(arpeggio_measures)
                     /\ len = Len(scale_measures) + 1 + Len(arpeggio_measures)

\* the request of keys C and G, one octave, on the piano has been answered
C1_Witness ==
    /\ pc = "done"
    /\ keys = <<"C", "G">>
    /\ num_octaves = 1
    /\ instrument_name = "Piano"
    /\ Len(scales_arpeggios_score) = 2
    /\ Len(scales_arpeggios_score[2].elements) = 6

(***************************************************************************)
(* C2                                                                      *)
(***************************************************************************)
\* C2 as stated: in every Part the first scale measure and the first arpeggio
\* measure each carry a clef and a key signature, and no other measure does.
C2_ClefAndKeyOnBothFirsts ==
    \A k \in 1..Len(scales_arpeggios_score) :
        LET part == scales_arpeggios_score[k]
            firsts == {1} \cup {b + 1 : b \in BreaksOf(part)}
        IN  \A i \in 1..Len(part.elements) :
                part.elements[i].kind = "Measure" =>
                    IF i \in firsts
                    THEN Len(part.elements[i].clefs) = 1 /\ Len(part.elements[i].keysigs) = 1
                    ELSE part.elements[i].clefs = <<>> /\ part.elements[i].keysigs = <<>>

\* C2 amended: in every Part the first scale measure carries the clef of the
\* instrument and the key signature, the first arpeggio measure carries the
\* key signature and no clef, and no other measure carries either.
C2_ClefOnScaleOnly ==
    \A k \in 1..Len(scales_arpeggios_score) :
        LET part == scales_arpeggios_score[k]
            firsts == {1} \cup {b + 1 : b \in BreaksOf(part)}
        IN  /\ Len(part.elements[1].clefs) = 1
            /\ instrument_name \in {"Piano", "Violin", "Alto Saxophone"}
                    => part.elements[1].clefs = <<"TrebleClef">>
            /\ instrument_name = "Tuba" => part.elements[1].clefs = <<"BassClef">>
            /\ instrument_name = "Snare Drum"
                    => part.elements[1].clefs = <<"PercussionClef">>
            /\ \A i \in 1..Len(part.elements) :
                part.elements[i].kind = "Measure" =>
                    /\ i \in firsts => part.elements[i].keysigs = <<keys[k]>>
                    /\ i \notin firsts => part.elements[i].keysigs = <<>>
                    /\ i # 1 => part.elements[i].clefs = <<>>

\* a Part with a first arpeggio measure and a later arpeggio measure has been built
C2_Witness ==
    \E k \in 1..Len(scales_arpeggios_score) :
        LET part == scales_arpeggios_score[k] IN
        \E b \in BreaksOf(part) :
            /\ b + 2 <= Len(part.elements)
            /\ part.elements[b + 1].keysigs # <<>>
            /\ part.elements[b + 1].clefs = <<>>

RhythmNotesAt(name, octave) ==
    \A k \in 1..Len(custom_rhythm_score) :
        LET notes == FlattenNotes(custom_rhythm_score[k].elements) IN
        \A j \in 1..Len(notes) : NameAndOctave(notes[j].pitch) = <<name, octave>>

\* C4 as stated: for the violin every note of the rhythm line is at C4; every
\* note is at the instrument's table entry, or at C4 without an entry.
C4_ViolinAtC4 ==
    RhythmBuilt =>
        /\ instrument_name = "Violin" => RhythmNotesAt("C", 4)
        /\ instrument_name = "Piano" => RhythmNotesAt("C", 4)
        /\ instrument_name = "Alto Saxophone" => RhythmNotesAt("D", 4)
        /\ instrument_name \in {"Tuba", "Snare Drum"} => RhythmNotesAt("C", 4)

\* C4 amended: for the violin the table holds G3 and every note of the rhythm
\* line is at G3; every note is at the instrument's table entry (piano C4,
\* alto saxophone D4), or at C4 when the instrument has no entry.
C4_ViolinAtG3 ==
    RhythmBuilt =>
        /\ instrument_name = "Violin" => RhythmNotesAt("G", 3)
        /\ instrument_name = "Piano" => RhythmNotesAt("C", 4)
        /\ instrument_name = "Alto Saxophone" => RhythmNotesAt("D", 4)
        /\ instrument_name \in {"Tuba", "Snare Drum"} => RhythmNotesAt("C", 4)
        /\ Len(FlattenNotes(custom_rhythm_score[1].elements))
                = CountValues(custom_rhythm)

\* the pattern [[1],[0.5,0.5]] has been built for the violin
C4_Witness ==
    /\ RhythmBuilt
    /\ instrument_name = "Violin"
    /\ custom_rhythm = <<<<One>>, <<Half, Half>>>>
    /\ Len(custom_rhythm_score[1].elements) = 2
    /\ Len(custom_rhythm_score[1].elements[2].notes) = 2

(***************************************************************************)
(* C5                                                                      *)
(***************************************************************************)
\* C5: for num_octaves = N >= 1 create_scale_measures returns 2N+1 measures:
\* 2N measures of exactly 7 notes, then one measure holding only the last
\* pitch as a whole note; no measure is empty; for N = 1 the sizes are 7, 7, 1.
C5_ScaleMeasureSizes ==
    (PartBuilt /\ num_octaves >= 1) =>
        /\ Len(all_pitches) = 14 * num_octaves + 1
        /\ Len(scale_measures) = 2 * num_octaves + 1
        /\ \A j \in 1..(2 * num_octaves) : Len(scale_measures[j].notes) = 7
        /\ \A j \in 1..Len(scale_measures) : scale_measures[j].notes # <<>>
        /\ LET last == scale_measures[Len(scale_measures)] IN
            /\ Len(last.notes) = 1
            /\ last.notes[1].duration = Whole
            /\ last.notes[1].pitch
                    = fix_enharmonic_spelling(all_pitches[Len(all_pitches)])
        /\ \A j \in 1..(2 * num_octaves) :
              \A i \in 1..7 : scale_measures[j].notes[i].duration # Whole
        /\ num_octaves = 1 =>
              <<Len(scale_measures[1].notes), Len(scale_measures[2].notes),
                Len(scale_measures[3].notes)>> = <<7, 7, 1>>

\* a one-octave scale of 15 pitches has been packed into 3 measures
C5_Witness ==
    /\ PartBuilt
    /\ num_octaves = 1
    /\ Len(all_pitches) = 15
    /\ Len(scale_measures) = 3

(***************************************************************************)
(* C6                                                                      *)
(***************************************************************************)
\* the tonic of the latest key at the given octave
TonicAt(octave) ==
    Pitch(Tonic(keys[key_idx])[1], Tonic(keys[key_idx])[2], octave)

\* C6: for N >= 1 the full scale sequence has 2*(7N)+1 pitches: it climbs by
\* one letter and one or two semitones a step from tonic@octave_start to the
\* apex tonic@(octave_start+N) at index 7N, then mirrors the ascent without the
\* apex, which so occurs exactly once, and ends at tonic@octave_start; for
\* key C at octave 4 with N = 1 it is C4 D4 E4 F4 G4 A4 B4 C5 B4 A4 G4 F4 E4 D4 C4.
C6_ScaleUpAndDown ==
    (PartBuilt /\ num_octaves >= 1) =>
        LET N == num_octaves
            octave_start == SelectClefOctave(instrument_name)[2]
            apex == TonicAt(octave_start + N)
        IN  /\ Len(all_pitches) = 2 * (7 * N) + 1
            /\ all_pitches[1] = TonicAt(octave_start)
            /\ all_pitches[7 * N + 1] = apex
            /\ all_pitches[14 * N + 1] = TonicAt(octave_start)
            /\ \A i \in 1..(7 * N) :
                /\ Ps(all_pitches[i + 1]) - Ps(all_pitches[i]) \in {1, 2}
                /\ all_pitches[i + 1].step = (all_pitches[i].step % 7) + 1
            /\ \A i \in 1..(14 * N + 1) : all_pitches[i] = all_pitches[14 * N + 2 - i]
            /\ Cardinality({i \in 1..Len(all_pitches) : all_pitches[i] = apex}) = 1
            /\ SubSeq(all_pitches, 1, 7 * N + 1) = scale_pitches
            /\ (keys[key_idx] = "C" /\ octave_start = 4 /\ N = 1) =>
                 [i \in 1..15 |-> NameAndOctave(all_pitches[i])]
                    = << <<"C", 4>>, <<"D", 4>>, <<"E", 4>>, <<"F", 4>>, <<"G", 4>>,
                         <<"A", 4>>, <<"B", 4>>, <<"C", 5>>, <<"B", 4>>, <<"A", 4>>,
                         <<"G", 4>>, <<"F", 4>>, <<"E", 4>>, <<"D", 4>>, <<"C", 4>> >>

\* the one-octave C major scale from C4 has been sequenced
C6_Witness ==
    /\ PartBuilt
    /\ keys[key_idx] = "C"
    /\ instrument_name = "Piano"
    /\ num_octaves = 1
    /\ Len(all_pitches) = 15

(***************************************************************************)
(* C7                                                                      *)
(***************************************************************************)
\* C7: for N >= 1 over the 7N+1 scale pitches the arpeggio ascent holds, for
\* each octave o < N, the scale pitches at 7o, 7o+2, 7o+4 and, after the last
\* octave's fifth, the pitch at 7(N-1)+7; it has 3(N-1)+4 tones and the full
\* up-and-down sequence has 6N+1 (7 and 13 for N = 2).
C7_ArpeggioAscent ==
    (PartBuilt /\ num_octaves >= 1) =>
        LET N == num_octaves IN
        /\ Len(scale_pitches) = 7 * N + 1
        /\ Len(arpeggio_up) = 3 * (N - 1) + 4
        /\ \A o \in 0..(N - 1) :
            /\ arpeggio_up[3 * o + 1] = scale_pitches[7 * o + 1]
            /\ arpeggio_up[3 * o + 2] = scale_pitches[7 * o + 3]
            /\ arpeggio_up[3 * o + 3] = scale_pitches[7 * o + 5]
        /\ arpeggio_up[3 * N + 1] = scale_pitches[7 * N + 1]
        /\ Len(all_arpeggio_pitches) = 6 * N + 1
        /\ SubSeq(all_arpeggio_pitches, 1, 3 * N + 1) = arpeggio_up
        /\ \A i \in 1..(6 * N + 1) :
              all_arpeggio_pitches[i] = all_arpeggio_pitches[6 * N + 2 - i]
        /\ N = 2 => Len(arpeggio_up) = 7 /\ Len(all_arpeggio_pitches) = 13

\* a two-octave arpeggio has been sequenced
C7_Witness ==
    /\ PartBuilt
    /\ num_octaves = 2
    /\ Len(scale_pitches) = 15
    /\ Len(arpeggio_up) = 7

(***************************************************************************)
(* C8                                                                      *)
(***************************************************************************)
\* the spelling the claim gives to a pitch
ClaimedSpelling(p) ==
    CASE p.step = 3 /\ p.alter = 1 -> Pitch(4, 0, p.octave)
      [] p.step = 7 /\ p.alter = 1 -> Pitch(1, 0, p.octave + 1)
      [] p.step = 1 /\ p.alter = -1 -> Pitch(7, 0, p.octave - 1)
      [] p.step = 4 /\ p.alter = -1 -> Pitch(3, 0, p.octave)
      [] OTHER -> p

\* C8: fix_enharmonic_spelling rewrites E sharp to F, B sharp to C an octave
\* up, C flat to B an octave down and F flat to E, leaves every other pitch
\* as it is, and a second call changes nothing more.
C8_FourRespellings ==
    n_calls >= 1 => n.pitch = ClaimedSpelling(n_in)

(***************************************************************************)
(* C9                                                                      *)
(***************************************************************************)
\* every index octave o reads from a list of K scale pitches exists
OctaveInRange(K, o, N) ==
    /\ 7 * o + 4 < K
    /\ o = N - 1 => 7 * o + 7 < K

\* the full group of octave o
FullGroup(pitches, o, N) ==
    <<pitches[7 * o + 1], pitches[7 * o + 3], pitches[7 * o + 5]>>
        \o (IF o = N - 1 THEN <<pitches[7 * o + 8]>> ELSE <<>>)

\* full groups of the octaves in range, nothing for the others
RECURSIVE WholeGroupsFrom(_, _, _)
WholeGroupsFrom(pitches, o, N) ==
    IF o >= N THEN <<>>
    ELSE (IF OctaveInRange(Len(pitches), o, N) THEN FullGroup(pitches, o, N) ELSE <<>>)
            \o WholeGroupsFrom(pitches, o + 1, N)

\* C9: for any num_octaves and any list of K scale pitches the ascent is the
\* full groups of the octaves whose indices are all below K and nothing of the
\* other octaves, and the descending half is empty when the ascent has at
\* most one pitch.
C9_WholeGroupsOnly ==
    pc = "seq_done" =>
        /\ arpeggio_up = WholeGroupsFrom(scale_pitches, 0, num_octaves)
        /\ Len(arpeggio_up) <= 1 => all_arpeggio_pitches = arpeggio_up
        /\ Len(arpeggio_up) > 1 => Len(all_arpeggio_pitches) = 2 * Len(arpeggio_up) - 1

\* of two octaves asked from 12 scale pitches the first gave its three tones
\* and the last, whose octave tone is missing, gave none
C9_Witness ==
    /\ pc = "seq_done"
    /\ num_octaves = 2
    /\ Len(scale_pitches) = 12
    /\ Len(arpeggio_up) = 3

(***************************************************************************)
(* C10                                                                     *)
(***************************************************************************)
\* the pitches of the notes equal the input pitches respelled, in order
Conserved(measures, pitches) ==
    LET notes == FlattenNotes(measures) IN
    /\ Len(notes) = Len(pitches)
    /\ \A i \in 1..Len(pitches) : notes[i].pitch = fix_enharmonic_spelling(pitches[i])

\* C10: for any input sequence, the notes of the measures a packer returns,
\* read in order, are the input pitches each respelled: none is dropped,
\* duplicated or moved, for the scale packer and for the arpeggio packer.
C10_PackerConserves ==
    /\ pc \in {"seq_arpeggio", "seq_done"} => Conserved(scale_measures, all_pitches)
    /\ pc = "seq_done" => Conserved(arpeggio_measures, all_arpeggio_pitches)

\* both packers have run on sequences longer than two measures, one of which
\* holds a pitch that is respelled
C10_Witness ==
    /\ pc = "seq_done"
    /\ Len(all_pitches) > 2 * 7
    /\ Len(all_arpeggio_pitches) > 8
    /\ \E i \in 1..Len(all_pitches) :
          fix_enharmonic_spelling(all_pitches[i]) # all_pitches[i]

====
